---------------------------- MODULE Spec2Model ----------------------------
(***************************************************************************)
(* A model of CrystalGrowthTracker: the geometry helpers                   *)
(* (src/cgt/util/scenegraphitems.py), the project dictionary CGTProject    *)
(* (src/cgt/model/cgtproject.py) and the RegionsLinesFramesWidget          *)
(* (src/cgt/gui/regionslinesframeswidget.py).                              *)
(*                                                                         *)
(* The helpers are pure functions.  Each is an operator computed the way   *)
(* the Python computes it; an action calls it once on inputs drawn from a  *)
(* bounded set and records the call and its outcome, and Return goes back  *)
(* to the idle state.  The methods of the project and of the widget are    *)
(* operators on the object; an action calls one on the object as it is.    *)
(*                                                                         *)
(* Numbers.  Python floats are modelled by exact rationals (Rat), so the   *)
(* model says nothing about rounding.  Where the code tests for non-finite *)
(* values (cgt_intersection) the inputs are extended floats (X..): a       *)
(* finite integer, +inf, -inf or NaN, with IEEE-754 arithmetic on them.    *)
(***************************************************************************)
EXTENDS Integers, Sequences, FiniteSets

VARIABLES pc, op, args, result, project, store, widget, hist

\* the objects: a CGTProject, the results store and a RegionsLinesFramesWidget;
\* hist records what has been done to them, for the statements about histories
objects == <<project, store, widget, hist>>

vars == <<pc, op, args, result, project, store, widget, hist>>

(***************************************************************************)
(* Bounds of the model.                                                    *)
(***************************************************************************)
\* coordinates of the lines given to cgt_intersection are in -1..MaxCoord
MaxCoord == 1
\* corners given to make_positive_rect are in -MaxCorner..MaxCorner
MaxCorner == 2
\* rectangle origins and item positions are k/4 with k in -2..MaxQuarter
MaxQuarter == 2
\* rectangle widths and heights are k/2 with k in 0..MaxHalf
MaxHalf == 4
\* difference lists have at most MaxLen entries
MaxLen == 2
\* frame intervals are in -1..MaxFrames, frame rates in 0..MaxFps
MaxFrames == 2
MaxFps == 2
\* records are given with up to MaxMissing of their last fields missing
MaxMissing == 3
\* the lines given to make_arrow_head are 0..MaxScale times a direction
MaxScale == 3
\* the results store holds at most MaxRegions regions
MaxRegions == 2
\* display_data is called while the regions list holds at most MaxItems entries
MaxItems == 4

(***************************************************************************)
(* Exact rationals: [n |-> numerator, d |-> denominator > 0], reduced.     *)
(***************************************************************************)
Abs(i) == IF i < 0 THEN -i ELSE i

RECURSIVE GCD(_, _)
GCD(i, j) == IF j = 0 THEN i ELSE GCD(j, i % j)

Rat(n, d) ==
    LET g == GCD(Abs(n), Abs(d))
        s == IF d < 0 THEN -1 ELSE 1
    IN  [n |-> (s * n) \div g, d |-> (s * d) \div g]

RInt(i) == [n |-> i, d |-> 1]
RAdd(p, q) == Rat(p.n * q.d + q.n * p.d, p.d * q.d)
RSub(p, q) == Rat(p.n * q.d - q.n * p.d, p.d * q.d)
RMul(p, q) == Rat(p.n * q.n, p.d * q.d)
RDiv(p, q) == Rat(p.n * q.d, p.d * q.n)
RNeg(p) == [n |-> -p.n, d |-> p.d]
RLt(p, q) == p.n * q.d < q.n * p.d
RLe(p, q) == p.n * q.d <= q.n * p.d
RIsZero(p) == p.n = 0
\* floor and ceiling of a rational (\div rounds down)
RFloor(p) == p.n \div p.d
RCeil(p) == -((-p.n) \div p.d)

\* QPointF over rationals
RPoint(x, y) == [x |-> x, y |-> y]
RPAdd(p, q) == RPoint(RAdd(p.x, q.x), RAdd(p.y, q.y))
RPSub(p, q) == RPoint(RSub(p.x, q.x), RSub(p.y, q.y))
RPScale(p, k) == RPoint(RMul(p.x, k), RMul(p.y, k))
RCross(p, q) == RSub(RMul(p.x, q.y), RMul(p.y, q.x))
RDot(p, q) == RAdd(RMul(p.x, q.x), RMul(p.y, q.y))

(***************************************************************************)
(* Python values shared by the calls.                                      *)
(***************************************************************************)
NoneVal == [t |-> "None"]
Raised(e) == [status |-> "raised", exc |-> e]
Returned(v) == [status |-> "ok", value |-> v]
NoResult == [status |-> "none"]
NoArgs == [none |-> TRUE]

\* QLineF(p1, p2)
QLineF(p1, p2) == [t |-> "QLineF", p1 |-> p1, p2 |-> p2]

(***************************************************************************)
(* Extended floats: the inputs of cgt_intersection.                        *)
(***************************************************************************)
Fin(i) == [k |-> "fin", v |-> i]
PInf == [k |-> "inf", v |-> 1]
NInf == [k |-> "inf", v |-> -1]
NaN == [k |-> "nan", v |-> 0]

Sign(i) == IF i < 0 THEN -1 ELSE IF i > 0 THEN 1 ELSE 0

XNeg(u) == IF u.k = "nan" THEN NaN ELSE [k |-> u.k, v |-> -u.v]

\* IEEE-754 addition: inf + (-inf) = NaN
XAdd(u, w) ==
    IF u.k = "nan" \/ w.k = "nan" THEN NaN
    ELSE IF u.k = "inf" /\ w.k = "inf" THEN (IF u.v = w.v THEN u ELSE NaN)
    ELSE IF u.k = "inf" THEN u
    ELSE IF w.k = "inf" THEN w
    ELSE Fin(u.v + w.v)

XSub(u, w) == XAdd(u, XNeg(w))

\* IEEE-754 multiplication: inf * 0 = NaN
XMul(u, w) ==
    IF u.k = "nan" \/ w.k = "nan" THEN NaN
    ELSE IF u.k = "inf" \/ w.k = "inf"
         THEN (IF u.v = 0 \/ w.v = 0 THEN NaN
               ELSE [k |-> "inf", v |-> Sign(u.v) * Sign(w.v)])
    ELSE Fin(u.v * w.v)

\* math.isfinite
isfinite(u) == u.k = "fin"

\* x == 0 on a float: false for inf and NaN
XIsZero(u) == u.k = "fin" /\ u.v = 0

\* a finite float as a rational; undefined on inf and NaN
XToRat(u) == CASE u.k = "fin" -> RInt(u.v)

XPoint(x, y) == [x |-> x, y |-> y]
XPSub(p, q) == XPoint(XSub(p.x, q.x), XSub(p.y, q.y))
XPToRat(p) == RPoint(XToRat(p.x), XToRat(p.y))

(***************************************************************************)
(* cgt_intersection(centred_normal, clone)                                 *)
(***************************************************************************)
\* a plausible slip: the dot product instead of the cross product
denominator_dot(a, b) == XSub(XMul(a.x, b.x), XMul(a.y, b.y))

\* denominator = a.y() * b.x() - a.x() * b.y()
denominator(a, b) == XSub(XMul(a.y, b.x), XMul(a.x, b.y))

\* a plausible slip: the operands of the difference exchanged
na_swapped(b, c, reciprocal) ==
    RMul(RSub(RMul(b.x, c.y), RMul(b.y, c.x)), reciprocal)

\* na = (b.y() * c.x() - b.x() * c.y()) * reciprocal
na_of(b, c, reciprocal) ==
    RMul(RSub(RMul(b.y, c.x), RMul(b.x, c.y)), reciprocal)

\* nb = (a.x() * c.y() - a.y() * c.x()) * reciprocal
nb_of(a, c, reciprocal) ==
    RMul(RSub(RMul(a.x, c.y), RMul(a.y, c.x)), reciprocal)

\* a plausible slip: the two ends of the clone exchanged
extension_swapped(nb, clone, intersection) ==
    IF RLt(nb, RInt(0)) THEN QLineF(XPToRat(clone.p2), intersection)
    ELSE IF RLt(RInt(1), nb) THEN QLineF(XPToRat(clone.p1), intersection)
    ELSE NoneVal

\* the extension of the clone, None when the intersection is on the clone
extension_of(nb, clone, intersection) ==
    IF RLt(nb, RInt(0)) THEN QLineF(XPToRat(clone.p1), intersection)
    ELSE IF RLt(RInt(1), nb) THEN QLineF(XPToRat(clone.p2), intersection)
    ELSE NoneVal

cgt_intersection(centred_normal, clone) ==
    LET xa == XPSub(centred_normal.p2, centred_normal.p1)
        xb == XPSub(clone.p1, clone.p2)
        xc == XPSub(centred_normal.p1, clone.p1)
        den == denominator(xa, xb)
    IN  IF XIsZero(den) \/ ~isfinite(den)
        THEN Raised("ArithmeticError")
        ELSE LET a == XPToRat(xa)
                 b == XPToRat(xb)
                 c == XPToRat(xc)
                 reciprocal == RDiv(RInt(1), XToRat(den))
                 na == na_of(b, c, reciprocal)
                 intersection ==
                     RPAdd(XPToRat(centred_normal.p1), RPScale(a, na))
                 nb == nb_of(a, c, reciprocal)
                 extension == extension_of(nb, clone, intersection)
             IN  Returned([intersection |-> intersection,
                           extension |-> extension])

(***************************************************************************)
(* make_positive_rect(corner, opposite_corner)                             *)
(***************************************************************************)
\* QRectF(left, top, width, height) and QRect(left, top, width, height)
QRectF(x, y, w, h) == [t |-> "QRectF", x |-> x, y |-> y, w |-> w, h |-> h]
QRect(x, y, w, h) == [t |-> "QRect", x |-> x, y |-> y, w |-> w, h |-> h]

Min(i, j) == IF i < j THEN i ELSE j

\* a plausible slip: the differences without abs()
make_positive_rect_signed(corner, opposite_corner) ==
    QRectF(Min(opposite_corner.x, corner.x), Min(opposite_corner.y, corner.y),
           opposite_corner.x - corner.x, opposite_corner.y - corner.y)

make_positive_rect(corner, opposite_corner) ==
    LET width == Abs(opposite_corner.x - corner.x)
        height == Abs(opposite_corner.y - corner.y)
        top_left_x == Min(opposite_corner.x, corner.x)
        top_left_y == Min(opposite_corner.y, corner.y)
    IN  QRectF(top_left_x, top_left_y, width, height)

(***************************************************************************)
(* get_rect_even_dimensions(rect_item, even_dimensions)                    *)
(***************************************************************************)
\* QRectF.toAlignedRect(): the smallest integer rectangle containing it
toAlignedRect(r) ==
    LET xmin == RFloor(r.x)
        xmax == RCeil(RAdd(r.x, r.w))
        ymin == RFloor(r.y)
        ymax == RCeil(RAdd(r.y, r.h))
    IN  QRect(xmin, ymin, xmax - xmin, ymax - ymin)

\* qRound: to the nearest integer
qRound(p) == RFloor(RAdd(p, Rat(1, 2)))

\* QPointF.toPoint()
toPoint(p) == [x |-> qRound(p.x), y |-> qRound(p.y)]

\* QRect.translate(point)
translate(r, p) == QRect(r.x + p.x, r.y + p.y, r.w, r.h)

get_rect_even_dimensions(rect_item, even_dimensions) ==
    LET rect == translate(toAlignedRect(rect_item.rect), toPoint(rect_item.pos))
        width == rect.w
        height == rect.h
    IN  IF ~even_dimensions THEN rect
        ELSE LET rect1 == IF width % 2 = 1
                          THEN QRect(rect.x, rect.y, width + 1, rect.h)
                          ELSE rect
             IN  IF height % 2 = 1
                 THEN QRect(rect1.x, rect1.y, rect1.w, height + 1)
                 ELSE rect1

(***************************************************************************)
(* difference_list_to_velocities(diff_list, scale, fps)                    *)
(***************************************************************************)
\* difference.average * scale
difference_to_distance(difference, scale) == RMul(difference.average, scale)

\* a plausible slip: the velocity appended with its sign
reported_signed(velocity) == velocity

\* the value appended to the list: -velocity if velocity < 0.0 else velocity
reported(velocity) == IF RLt(velocity, RInt(0)) THEN RNeg(velocity) ELSE velocity

\* a plausible slip: a zero division ends the loop and the list so far is returned
RECURSIVE velocities_loop_partial(_, _, _, _)
velocities_loop_partial(diff_list, scale, fps, velocities) ==
    IF diff_list = <<>> THEN Returned(velocities)
    ELSE LET frames == Head(diff_list).frames
             diff == Head(diff_list).diff
             distance == difference_to_distance(diff, scale)
         IN  IF RIsZero(fps) THEN Returned(velocities)
             ELSE LET time == RDiv(frames, fps)
                  IN  IF RIsZero(time) THEN Returned(velocities)
                      ELSE velocities_loop_partial(Tail(diff_list), scale, fps,
                               Append(velocities, reported(RDiv(distance, time))))

\* the for loop; a Python division by zero raises ZeroDivisionError
RECURSIVE velocities_loop(_, _, _, _)
velocities_loop(diff_list, scale, fps, velocities) ==
    IF diff_list = <<>> THEN Returned(velocities)
    ELSE LET frames == Head(diff_list).frames
             diff == Head(diff_list).diff
             distance == difference_to_distance(diff, scale)
         IN  IF RIsZero(fps) THEN Raised("ZeroDivisionError")
             ELSE LET time == RDiv(frames, fps)
                  IN  IF RIsZero(time) THEN Raised("ZeroDivisionError")
                      ELSE velocities_loop(Tail(diff_list), scale, fps,
                               Append(velocities, reported(RDiv(distance, time))))

difference_list_to_velocities(diff_list, scale, fps) ==
    velocities_loop(diff_list, scale, fps, <<>>)

(***************************************************************************)
(* Python values in a record read from file: an int, a float, a string or  *)
(* None.  A string is known by what its text is: an integer literal        *)
(* ("4"), a decimal literal ("2.5") or anything else ("abc"); v is the     *)
(* number a literal denotes.                                               *)
(***************************************************************************)
PyIntTok(r) == [t |-> "int", v |-> r]
PyFloatTok(r) == [t |-> "float", v |-> r]
PyStrTok(lit, r) == [t |-> "str", lit |-> lit, v |-> r]

\* rounding towards zero
RTrunc(r) == IF r.n >= 0 THEN r.n \div r.d ELSE -((-r.n) \div r.d)

\* float(x)
PyFloat(x) ==
    CASE x.t = "int" -> Returned(PyFloatTok(x.v))
      [] x.t = "float" -> Returned(x)
      [] x.t = "str" -> IF x.lit \in {"int", "float"}
                        THEN Returned(PyFloatTok(x.v))
                        ELSE Raised("ValueError")
      [] x.t = "None" -> Raised("TypeError")

\* int(x): a float is truncated, the text of a decimal is refused
PyInt(x) ==
    CASE x.t = "int" -> Returned(x)
      [] x.t = "float" -> Returned(PyIntTok(RInt(RTrunc(x.v))))
      [] x.t = "str" -> IF x.lit = "int"
                        THEN Returned(PyIntTok(x.v))
                        ELSE Raised("ValueError")
      [] x.t = "None" -> Raised("TypeError")

\* kind(list[i]), i counted from 0 as in Python
Convert(list, i, kind) ==
    IF i >= Len(list) THEN Raised("IndexError")
    ELSE IF kind = "float" THEN PyFloat(list[i + 1])
    ELSE PyInt(list[i + 1])

\* the outcome of the conversions made in order: the first one to raise ends them
InOrder(convs) ==
    IF \E j \in 1 .. Len(convs) : convs[j].status = "raised"
    THEN convs[CHOOSE j \in 1 .. Len(convs) :
                   /\ convs[j].status = "raised"
                   /\ \A k \in 1 .. (j - 1) : convs[k].status = "ok"]
    ELSE Returned([j \in 1 .. Len(convs) |-> convs[j].value])

(***************************************************************************)
(* list_to_g_point, list_to_g_line, g_point_to_tuple, g_line_to_tuple      *)
(***************************************************************************)
\* the cross drawn at a point: four strokes of (+-10, +-10) from it
make_cross_path(point) ==
    LET up_right == RPoint(RInt(10), RInt(10))
        up_left == RPoint(RInt(-10), RInt(10))
    IN  << [e |-> "moveTo", p |-> point], [e |-> "lineTo", p |-> RPAdd(point, up_right)],
           [e |-> "moveTo", p |-> point], [e |-> "lineTo", p |-> RPAdd(point, up_left)],
           [e |-> "moveTo", p |-> point], [e |-> "lineTo", p |-> RPSub(point, up_right)],
           [e |-> "moveTo", p |-> point], [e |-> "lineTo", p |-> RPSub(point, up_left)] >>

\* the conversions of list_to_g_point, from index PointFirst on
PointKinds == <<"float", "float", "float", "float", "int", "int">>
LineKinds == <<"float", "float", "float", "float", "float", "float", "int", "int">>

item_from_point_fields(f, pen) ==
    LET centre == RPoint(f[1].v, f[2].v)
        position == RPoint(f[3].v, f[4].v)
    IN  [t |-> "QGraphicsPathItem",
         path |-> make_cross_path(centre),
         pos |-> position,
         data |-> [ITEM_TYPE |-> "POINT", FRAME_NUMBER |-> f[5],
                   REGION_INDEX |-> f[6], CROSS_CENTRE |-> centre],
         pen |-> pen,
         z |-> 1]

\* a plausible slip: the fields read from index 0, the ID, on
list_to_g_point_from_0(point, pen) ==
    LET parsed == InOrder([j \in 1 .. 6 |-> Convert(point, j - 1, PointKinds[j])])
    IN  IF parsed.status = "raised" THEN parsed
        ELSE Returned(item_from_point_fields(parsed.value, pen))

list_to_g_point(point, pen) ==
    LET parsed == InOrder([j \in 1 .. 6 |-> Convert(point, j, PointKinds[j])])
    IN  IF parsed.status = "raised" THEN parsed
        ELSE Returned(item_from_point_fields(parsed.value, pen))

list_to_g_line(line, pen) ==
    LET parsed == InOrder([j \in 1 .. 8 |-> Convert(line, j, LineKinds[j])])
    IN  IF parsed.status = "raised" THEN parsed
        ELSE LET f == parsed.value
             IN  Returned([t |-> "QGraphicsLineItem",
                           line |-> QLineF(RPoint(f[1].v, f[2].v), RPoint(f[3].v, f[4].v)),
                           pos |-> RPoint(f[5].v, f[6].v),
                           data |-> [ITEM_TYPE |-> "LINE", FRAME_NUMBER |-> f[7],
                                     REGION_INDEX |-> f[8]],
                           pen |-> pen,
                           z |-> 1])

\* a plausible slip: the position written before the centre
g_point_to_tuple_pos_first(point) ==
    LET centre == point.data.CROSS_CENTRE
        position == point.pos
    IN  << PyFloatTok(position.x), PyFloatTok(position.y),
           PyFloatTok(centre.x), PyFloatTok(centre.y),
           point.data.FRAME_NUMBER, point.data.REGION_INDEX >>

g_point_to_tuple(point) ==
    LET centre == point.data.CROSS_CENTRE
        position == point.pos
    IN  << PyFloatTok(centre.x), PyFloatTok(centre.y),
           PyFloatTok(position.x), PyFloatTok(position.y),
           point.data.FRAME_NUMBER, point.data.REGION_INDEX >>

g_line_to_tuple(line) ==
    << PyFloatTok(line.line.p1.x), PyFloatTok(line.line.p1.y),
       PyFloatTok(line.line.p2.x), PyFloatTok(line.line.p2.y),
       PyFloatTok(line.pos.x), PyFloatTok(line.pos.y),
       line.data.FRAME_NUMBER, line.data.REGION_INDEX >>

(***************************************************************************)
(* QLineF over rationals, and make_arrow_head(line, length_cutoff)         *)
(***************************************************************************)
\* the square root of a square; the lines of the model have rational lengths
ISqrt(i) == CHOOSE k \in 0 .. i : k * k = i
RSqrt(p) == Rat(ISqrt(p.n), ISqrt(p.d))

Delta(line) == RPSub(line.p2, line.p1)

\* QLineF.length()
length(line) == RSqrt(RDot(Delta(line), Delta(line)))

\* QLineF.normalVector(): from p1, the direction turned by a quarter turn
normalVector(line) ==
    QLineF(line.p1, RPAdd(line.p1, RPoint(Delta(line).y, RNeg(Delta(line).x))))

\* QLineF.pointAt(t)
pointAt(line, t) == RPAdd(line.p1, RPScale(Delta(line), t))

\* QLineF.unitVector()
unitVector(line) ==
    QLineF(line.p1,
           RPAdd(line.p1, RPScale(Delta(line), RDiv(RInt(1), length(line)))))

\* QLineF.setLength(len): p2 moved along the line; a null line is left alone
setLength(line, len) ==
    IF RIsZero(length(line)) THEN line
    ELSE QLineF(line.p1, RPAdd(line.p1, RPScale(Delta(unitVector(line)), len)))

QPolygonF(points) == [t |-> "QPolygonF", points |-> points]

\* a plausible slip: no head at the cutoff either
too_short_or_equal(line, length_cutoff) == RLe(length(line), length_cutoff)

\* line.length() < length_cutoff
too_short(line, length_cutoff) == RLt(length(line), length_cutoff)

make_arrow_head(line, length_cutoff) ==
    IF too_short(line, length_cutoff) THEN Returned(NoneVal)
    ELSE IF RIsZero(length(line)) THEN Raised("ZeroDivisionError")
    ELSE LET delta_t == RDiv(RSub(length(line), RInt(10)), length(line))
             normal == normalVector(line)
             offset == RPSub(pointAt(line, delta_t), line.p1)
             offset_normal == QLineF(RPAdd(normal.p1, offset), RPAdd(normal.p2, offset))
             opposit_normal == QLineF(offset_normal.p1, pointAt(offset_normal, RInt(-1)))
             offset_normal5 == setLength(offset_normal, RInt(5))
             opposit_normal5 == setLength(opposit_normal, RInt(5))
         IN  Returned(QPolygonF(<<line.p2, offset_normal5.p2, opposit_normal5.p2>>))

(***************************************************************************)
(* make_arrow(line, clone)                                                 *)
(***************************************************************************)
\* QLineF.center()
center(line) == RPScale(RPAdd(line.p1, line.p2), Rat(1, 2))

\* a rational as a float of cgt_intersection; the lines given have whole centres
RToX(p) == CASE p.d = 1 -> Fin(p.n)
RPToX(q) == XPoint(RToX(q.x), RToX(q.y))

\* a plausible slip: the normal left at p1
centred_normal_at_p1(line) == normalVector(line)

\* the normal of the line moved to the centre of the line
centred_normal_of(line) ==
    LET normal == normalVector(line)
        centre == center(line)
        offset == RPSub(centre, line.p1)
    IN  QLineF(RPAdd(normal.p1, offset), RPAdd(normal.p2, offset))

make_arrow(line, clone) ==
    LET rline == QLineF(XPToRat(line.p1), XPToRat(line.p2))
        centre == center(rline)
        centred_normal == centred_normal_of(rline)
        found == cgt_intersection(
                     QLineF(RPToX(centred_normal.p1), RPToX(centred_normal.p2)), clone)
    IN  IF found.status = "raised" THEN found
        ELSE Returned([arrow |-> QLineF(centre, found.value.intersection),
                       extension |-> found.value.extension])

(***************************************************************************)
(* The results store (cgt.videoanalysisresultsstore), as far as CGTProject *)
(* and the widget use it: a changed flag and a result, None or the         *)
(* regions with the number of lines of each.                               *)
(***************************************************************************)
NewStore == [changed |-> FALSE, has_result |-> FALSE, lines |-> <<>>]

\* results.has_been_changed()
store_has_been_changed(st) == st.changed

\* results.reset_changed()
store_reset_changed(st) == [st EXCEPT !.changed = FALSE]

\* a change of the results: a region with l_count lines is added
store_add_region(st, l_count) ==
    [changed |-> TRUE, has_result |-> TRUE, lines |-> Append(st.lines, l_count)]

(***************************************************************************)
(* CGTProject(dict) (src/cgt/model/cgtproject.py).  self is                *)
(* [changed, entries]: the flag _changed and the dictionary.  A method is  *)
(* an operator giving self and the store after the call and the value     *)
(* returned.  The value of "results" is "None" or "store", the store.      *)
(***************************************************************************)
NoProject == [constructed |-> FALSE, changed |-> FALSE, entries |-> <<>>]

Outcome(self, st, ret) == [self |-> self, store |-> st, ret |-> ret]

\* dict.__setitem__
dict_setitem(entries, item, value) ==
    [k \in DOMAIN entries \cup {item} |-> IF k = item THEN value ELSE entries[k]]

\* a plausible slip: the value stored, the flag forgotten
setitem_no_flag(self, item, value) ==
    [self EXCEPT !.entries = dict_setitem(self.entries, item, value)]

\* CGTProject.__setitem__
setitem(self, item, value) ==
    [self EXCEPT !.entries = dict_setitem(self.entries, item, value),
                 !.changed = TRUE]

\* the assignments of __init__, in order
DefaultItems ==
    << <<"prog", "None">>, <<"description", "None">>, <<"start_datetime", "None">>,
       <<"host", "None">>, <<"ip_address", "None">>, <<"operating_system", "None">>,
       <<"enhanced_video", "None">>, <<"raw_video", "None">>, <<"proj_name", "None">>,
       <<"proj_full_path", "None">>, <<"notes", "None">>, <<"results", "None">>,
       <<"enhanced_video_path", "None">>, <<"enhanced_video_no_path", "None">>,
       <<"enhanced_video_no_extension", "None">>, <<"raw_video_path", "None">>,
       <<"raw_video_no_path", "None">>, <<"raw_video_no_extension", "None">>,
       <<"stats_from_enhanced", "False">>, <<"start_user", "None">>,
       <<"frame_rate", "None">>, <<"resolution", "None">>,
       <<"resolution_units", "None">>, <<"latest_report", "None">> >>

\* the assignments of init_new_project, in order
NewProjectItems ==
    << <<"prog", "CGT">>, <<"description", "text">>, <<"start_datetime", "text">>,
       <<"host", "text">>, <<"ip_address", "text">>, <<"operating_system", "text">>,
       <<"start_user", "text">> >>

\* self[item] = value for each of the items, in order
RECURSIVE assign_all(_, _)
assign_all(self, items) ==
    IF items = <<>> THEN self
    ELSE assign_all(setitem(self, Head(items)[1], Head(items)[2]), Tail(items))

\* a plausible slip: the flag cleared after the keys are set
CGTProject_init_flag_last ==
    [assign_all([constructed |-> TRUE, changed |-> FALSE, entries |-> <<>>],
                DefaultItems) EXCEPT !.changed = FALSE]

\* CGTProject.__init__: the flag is cleared, then the keys are set
CGTProject_init ==
    assign_all([constructed |-> TRUE, changed |-> FALSE, entries |-> <<>>],
               DefaultItems)

\* CGTProject.init_new_project
init_new_project(self, st) == Outcome(assign_all(self, NewProjectItems), st, "None")

\* CGTProject.set_changed
set_changed(self, st) == Outcome([self EXCEPT !.changed = TRUE], st, "None")

\* a plausible slip: the store's flag left as it is
reset_changed_own_only(self, st) ==
    Outcome([self EXCEPT !.changed = FALSE], st, "None")

\* CGTProject.reset_changed
reset_changed(self, st) ==
    LET self1 == [self EXCEPT !.changed = FALSE]
    IN  IF self1.entries["results"] # "None"
        THEN Outcome(self1, store_reset_changed(st), "None")
        ELSE Outcome(self1, st, "None")

\* a plausible slip: the store not asked
has_been_changed_own_only(self, st) == Outcome(self, st, self.changed)

\* CGTProject.has_been_changed
has_been_changed(self, st) ==
    IF self.entries["results"] = "None"
    THEN Outcome(self, st, self.changed)
    ELSE Outcome(self, st, self.changed \/ store_has_been_changed(st))

(***************************************************************************)
(* RegionsLinesFramesWidget (src/cgt/gui/regionslinesframeswidget.py).     *)
(* self is [data_source, regionsList, linesList, framesList]; the data     *)
(* source is "None" or "store", the results store.                         *)
(***************************************************************************)
\* data_source.get_result(): None or the result
get_result(st) ==
    IF st.has_result THEN [t |-> "result", lines |-> st.lines] ELSE NoneVal

\* result.number_of_regions
number_of_regions(res) == Len(res.lines)

\* result.get_lines(i), i counted from 0
get_lines(res, i) == [j \in 1 .. res.lines[i + 1] |-> "line"]

\* the text f"region {i} {l_count} lines" or f"region {i} no lines"
region_item(i, l_count) ==
    IF l_count > 0
    THEN [region |-> i, count |-> l_count, text |-> "lines"]
    ELSE [region |-> i, count |-> 0, text |-> "no lines"]

\* for i in range(number_of_regions), from i on: self._regionsList.addItem(item)
RECURSIVE add_region_items(_, _, _)
add_region_items(list, res, i) ==
    IF i >= number_of_regions(res) THEN list
    ELSE add_region_items(Append(list, region_item(i, Len(get_lines(res, i)))),
                          res, i + 1)

WOutcome(self, status) == [self |-> self, status |-> status]

\* a plausible slip: the list emptied before it is filled
display_data_refreshing(self, st) ==
    IF self.data_source = "None" THEN WOutcome(self, Raised("AttributeError"))
    ELSE LET res == get_result(st)
         IN  IF res = NoneVal THEN WOutcome(self, Returned("None"))
             ELSE WOutcome([self EXCEPT !.regionsList = add_region_items(<<>>, res, 0)],
                           Returned("None"))

\* RegionsLinesFramesWidget.display_data; None has no get_result
display_data(self, st) ==
    IF self.data_source = "None" THEN WOutcome(self, Raised("AttributeError"))
    ELSE LET res == get_result(st)
         IN  IF res = NoneVal THEN WOutcome(self, Returned("None"))
             ELSE WOutcome([self EXCEPT !.regionsList =
                                add_region_items(self.regionsList, res, 0)],
                           Returned("None"))

\* RegionsLinesFramesWidget.__init__(parent, data_source)
widget_init(data_source, st) ==
    LET self == [constructed |-> TRUE, data_source |-> data_source,
                 regionsList |-> <<>>, linesList |-> <<>>, framesList |-> <<>>]
    IN  IF data_source # "None" THEN display_data(self, st)
        ELSE WOutcome(self, Returned("None"))

\* RegionsLinesFramesWidget.set_data_source
set_data_source(self, data_source, st) ==
    display_data([self EXCEPT !.data_source = data_source], st)

\* RegionsLinesFramesWidget.clear
clear(self) ==
    WOutcome([self EXCEPT !.regionsList = <<>>, !.linesList = <<>>,
                          !.framesList = <<>>],
             Returned("None"))

(***************************************************************************)
(* The inputs of cgt_intersection.                                         *)
(***************************************************************************)
Coord == -1 .. MaxCoord

XLine(x1, y1, x2, y2) ==
    QLineF(XPoint(Fin(x1), Fin(y1)), XPoint(Fin(x2), Fin(y2)))

GridLines ==
    {XLine(x1, y1, x2, y2) : x1 \in Coord, y1 \in Coord,
                             x2 \in Coord, y2 \in Coord}

\* lines with a non-finite coordinate
NonFinite == {PInf, NInf, NaN}
Unit == {Fin(0), Fin(1)}
SpecialLines ==
    {QLineF(XPoint(s, Fin(0)), XPoint(u, w)) : s \in NonFinite, u \in Unit, w \in Unit}
    \cup {QLineF(XPoint(u, w), XPoint(Fin(1), s)) : s \in NonFinite, u \in Unit, w \in Unit}

\* the lines of the documented examples
ExampleN == XLine(0, 0, 0, 10)
ExampleCross == XLine(-5, 5, 5, 5)
ExampleParallel == XLine(1, 0, 1, 10)

IntersectionInputs ==
    (GridLines \X GridLines)
    \cup (SpecialLines \X {XLine(0, 0, 1, 1), XLine(0, 0, 0, 0)})
    \cup ({XLine(0, 0, 1, 0), XLine(0, 1, 0, 0)} \X SpecialLines)
    \cup {<<ExampleN, ExampleCross>>, <<ExampleN, ExampleParallel>>}

(***************************************************************************)
(* The inputs of the rectangle helpers.                                    *)
(***************************************************************************)
Corner == (-MaxCorner) .. MaxCorner
Corners == {[x |-> x, y |-> y] : x \in Corner, y \in Corner}

Quarters == {Rat(k, 4) : k \in (-2) .. MaxQuarter}
Halves == {Rat(k, 2) : k \in 0 .. MaxHalf}

\* a QGraphicsRectItem: its rectangle in item coordinates and its position
RectItems ==
    {[rect |-> QRectF(x, y, w, h), pos |-> RPoint(px, py)] :
        x \in {Rat(0, 1), Rat(1, 4)}, y \in {Rat(0, 1), Rat(-1, 2)},
        w \in Halves, h \in Halves, px \in Quarters, py \in Quarters}

(***************************************************************************)
(* The inputs of difference_list_to_velocities.                            *)
(***************************************************************************)
\* an entry (frames, diff); diff.average is the only field the code reads
Entry(f, a) == [frames |-> RInt(f), diff |-> [average |-> RInt(a)]]
Entries == {Entry(f, a) : f \in (-1) .. MaxFrames, a \in {-1, 0, 3}}

RECURSIVE SeqsUpTo(_, _)
SeqsUpTo(S, n) ==
    IF n = 0 THEN {<<>>}
    ELSE LET shorter == SeqsUpTo(S, n - 1)
         IN  shorter \cup {Append(q, e) : q \in shorter, e \in S}

\* the documented example: average -4, scale 2, frames 5, fps 10
ExampleVelocity == [diff_list |-> <<Entry(5, -4)>>, scale |-> RInt(2), fps |-> RInt(10)]

VelocityInputs ==
    {[diff_list |-> l, scale |-> s, fps |-> RInt(f)] :
        l \in SeqsUpTo(Entries, MaxLen), s \in {RInt(2), Rat(1, 2)}, f \in 0 .. MaxFps}
    \cup {ExampleVelocity}

(***************************************************************************)
(* The records given to list_to_g_point and list_to_g_line.                *)
(***************************************************************************)
Junk == PyStrTok("other", RInt(0))

\* what a coordinate field, a frame or region field and the ID may hold
CoordFields == {PyIntTok(RInt(1)), PyFloatTok(Rat(3, 2)), PyStrTok("float", Rat(5, 2)), Junk}
LineCoordFields == {PyFloatTok(Rat(-3, 2)), PyStrTok("int", RInt(4)), NoneVal}
IndexFields == {PyIntTok(RInt(2)), PyFloatTok(Rat(-5, 2)), PyStrTok("int", RInt(4)),
                PyStrTok("float", RInt(3)), NoneVal}
IdFields == {Junk, NoneVal}

\* a record and its beginnings
Prefixes(S, n) == {SubSeq(q, 1, k) : q \in S, k \in (n - MaxMissing) .. n}

FullPointLists ==
    {<<id, cx, cy, px, py, fr, rg>> :
        id \in IdFields, cx \in CoordFields, cy \in CoordFields,
        px \in CoordFields, py \in CoordFields, fr \in IndexFields, rg \in IndexFields}

PointLists ==
    Prefixes(FullPointLists, 7)
    \cup {Append(q, Junk) : q \in {f \in FullPointLists : f[1] = Junk /\ f[2] = f[4]}}

FullLineLists ==
    {<<Junk, x1, y1, x2, y2, px, py, fr, rg>> :
        x1 \in LineCoordFields, y1 \in LineCoordFields,
        x2 \in LineCoordFields, y2 \in LineCoordFields,
        px \in LineCoordFields, py \in LineCoordFields,
        fr \in {PyIntTok(RInt(0)), PyStrTok("float", RInt(3))},
        rg \in {PyIntTok(RInt(7)), PyFloatTok(Rat(5, 2))}}

LineLists ==
    Prefixes(FullLineLists, 9)
    \cup {<<NoneVal>> \o Tail(q) \o <<NoneVal>> : q \in {f \in FullLineLists : f[2] = f[3]}}

Pen == "pen"

(***************************************************************************)
(* The lines given to make_arrow_head.                                     *)
(***************************************************************************)
\* directions of length 1 and 5
Directions ==
    { <<1, 0>>, <<0, -1>>, <<5, 0>>, <<0, 5>>, <<-5, 0>>, <<0, -5>>,
      <<3, 4>>, <<4, -3>>, <<-3, -4>>, <<-4, 3>> }

ArrowLines ==
    {QLineF(RPoint(RInt(o[1]), RInt(o[2])),
            RPoint(RInt(o[1] + k * d[1]), RInt(o[2] + k * d[2]))) :
        o \in {<<0, 0>>, <<1, -2>>}, d \in Directions, k \in 0 .. MaxScale}

Cutoffs == {RInt(-1), RInt(0), RInt(5), RInt(10), Rat(21, 2)}

\* the parent lines given to make_arrow: even coordinates, so whole centres
EvenCoord == {2 * k : k \in (-1) .. MaxCoord}
ParentLines ==
    {XLine(x1, y1, x2, y2) : x1 \in EvenCoord, y1 \in EvenCoord,
                             x2 \in EvenCoord, y2 \in EvenCoord}

(***************************************************************************)
(* What has been done to the objects: dirtied, a key was assigned or       *)
(* set_changed called since the last reset_changed; assigned, a caller has *)
(* assigned a key; reset, reset_changed has been called; shown, the        *)
(* regions display_data was to show since the last clear.                  *)
(***************************************************************************)
NoHistory == [dirtied |-> FALSE, assigned |-> FALSE, reset |-> FALSE, shown |-> 0]

NoWidget == [constructed |-> FALSE, data_source |-> "None",
             regionsList |-> <<>>, linesList |-> <<>>, framesList |-> <<>>]

(***************************************************************************)
(* The state machine.                                                      *)
(***************************************************************************)
Init ==
    /\ pc = "idle"
    /\ op = "none"
    /\ args = NoArgs
    /\ result = NoResult
    /\ project = NoProject
    /\ store = NewStore
    /\ widget = NoWidget
    /\ hist = NoHistory

Call_cgt_intersection ==
    /\ pc = "idle"
    /\ \E in \in IntersectionInputs :
          /\ args' = [centred_normal |-> in[1], clone |-> in[2]]
          /\ result' = cgt_intersection(in[1], in[2])
    /\ op' = "cgt_intersection"
    /\ pc' = "returned"
    /\ UNCHANGED objects

Call_make_positive_rect ==
    /\ pc = "idle"
    /\ \E c1 \in Corners, c2 \in Corners :
          /\ args' = [corner |-> c1, opposite_corner |-> c2]
          /\ result' = Returned(make_positive_rect(c1, c2))
    /\ op' = "make_positive_rect"
    /\ pc' = "returned"
    /\ UNCHANGED objects

Call_get_rect_even_dimensions ==
    /\ pc = "idle"
    /\ \E item \in RectItems, even \in BOOLEAN :
          /\ args' = [rect_item |-> item, even_dimensions |-> even]
          /\ result' = Returned(get_rect_even_dimensions(item, even))
    /\ op' = "get_rect_even_dimensions"
    /\ pc' = "returned"
    /\ UNCHANGED objects

Call_difference_list_to_velocities ==
    /\ pc = "idle"
    /\ \E in \in VelocityInputs :
          /\ args' = in
          /\ result' = difference_list_to_velocities(in.diff_list, in.scale, in.fps)
    /\ op' = "difference_list_to_velocities"
    /\ pc' = "returned"
    /\ UNCHANGED objects

Call_list_to_g_point ==
    /\ pc = "idle"
    /\ \E point \in PointLists :
          /\ args' = [point |-> point, pen |-> Pen]
          /\ result' = list_to_g_point(point, Pen)
    /\ op' = "list_to_g_point"
    /\ pc' = "returned"
    /\ UNCHANGED objects

Call_list_to_g_line ==
    /\ pc = "idle"
    /\ \E line \in LineLists :
          /\ args' = [line |-> line, pen |-> Pen]
          /\ result' = list_to_g_line(line, Pen)
    /\ op' = "list_to_g_line"
    /\ pc' = "returned"
    /\ UNCHANGED objects

\* the item just built is written back; read_from keeps the record it was built from
Call_g_point_to_tuple ==
    /\ pc = "returned"
    /\ op = "list_to_g_point"
    /\ result.status = "ok"
    /\ args' = [point |-> result.value, read_from |-> args.point]
    /\ result' = Returned(g_point_to_tuple(result.value))
    /\ op' = "g_point_to_tuple"
    /\ pc' = "returned"
    /\ UNCHANGED objects

Call_g_line_to_tuple ==
    /\ pc = "returned"
    /\ op = "list_to_g_line"
    /\ result.status = "ok"
    /\ args' = [line |-> result.value, read_from |-> args.line]
    /\ result' = Returned(g_line_to_tuple(result.value))
    /\ op' = "g_line_to_tuple"
    /\ pc' = "returned"
    /\ UNCHANGED objects

Call_make_arrow_head ==
    /\ pc = "idle"
    /\ \E line \in ArrowLines, cutoff \in Cutoffs :
          /\ args' = [line |-> line, length_cutoff |-> cutoff]
          /\ result' = make_arrow_head(line, cutoff)
    /\ op' = "make_arrow_head"
    /\ pc' = "returned"
    /\ UNCHANGED objects

Call_make_arrow ==
    /\ pc = "idle"
    /\ \E line \in ParentLines, clone \in GridLines :
          /\ args' = [line |-> line, clone |-> clone]
          /\ result' = make_arrow(line, clone)
    /\ op' = "make_arrow"
    /\ pc' = "returned"
    /\ UNCHANGED objects

(***************************************************************************)
(* The calls on a CGTProject and on the results store.  args keeps the     *)
(* project and the store as they were before the call.                     *)
(***************************************************************************)
\* the keys a caller assigns, and the values given to each
AssignedKeys == {"notes", "results", "extra"}
ValuesOf(k) == IF k = "results" THEN {"None", "store"} ELSE {"None", "text"}

Before == [self |-> project, store |-> store]

\* the call has been made: the objects and the value returned are as it gives
Called(name, out) ==
    /\ project' = out.self
    /\ store' = out.store
    /\ result' = Returned(out.ret)
    /\ args' = Before
    /\ op' = name
    /\ pc' = "returned"
    /\ UNCHANGED widget

Project_init ==
    /\ pc = "idle"
    /\ ~project.constructed
    /\ Called("__init__", Outcome(CGTProject_init, store, "None"))
    /\ hist' = NoHistory

Project_setitem ==
    /\ pc = "idle"
    /\ project.constructed
    /\ \E k \in AssignedKeys : \E v \in ValuesOf(k) :
          Called("__setitem__", Outcome(setitem(project, k, v), store, "None"))
    /\ hist' = [hist EXCEPT !.dirtied = TRUE, !.assigned = TRUE]

Project_init_new_project ==
    /\ pc = "idle"
    /\ project.constructed
    /\ Called("init_new_project", init_new_project(project, store))
    /\ hist' = [hist EXCEPT !.dirtied = TRUE, !.assigned = TRUE]

Project_set_changed ==
    /\ pc = "idle"
    /\ project.constructed
    /\ Called("set_changed", set_changed(project, store))
    /\ hist' = [hist EXCEPT !.dirtied = TRUE]

Project_reset_changed ==
    /\ pc = "idle"
    /\ project.constructed
    /\ Called("reset_changed", reset_changed(project, store))
    /\ hist' = [hist EXCEPT !.dirtied = FALSE, !.reset = TRUE]

Project_has_been_changed ==
    /\ pc = "idle"
    /\ project.constructed
    /\ Called("has_been_changed", has_been_changed(project, store))
    /\ UNCHANGED hist

\* the results change: a region is added to the store
Store_add_region ==
    /\ pc = "idle"
    /\ Len(store.lines) < MaxRegions
    /\ \E l_count \in 0 .. 1 :
          Called("add_region", Outcome(project, store_add_region(store, l_count), "None"))
    /\ UNCHANGED hist

(***************************************************************************)
(* The calls on a RegionsLinesFramesWidget.                                *)
(***************************************************************************)
DataSources == {"None", "store"}

\* the regions a display_data on the data source is to show
ToShow(data_source) ==
    IF data_source = "store" /\ store.has_result THEN Len(store.lines) ELSE 0

\* the call has been made on the widget
WCalled(name, out) ==
    /\ widget' = out.self
    /\ result' = out.status
    /\ args' = [self |-> widget, store |-> store]
    /\ op' = name
    /\ pc' = "returned"
    /\ UNCHANGED <<project, store>>

Widget_init ==
    /\ pc = "idle"
    /\ ~widget.constructed
    /\ \E ds \in DataSources :
          /\ WCalled("widget.__init__", widget_init(ds, store))
          /\ hist' = [hist EXCEPT !.shown = ToShow(ds)]

Widget_set_data_source ==
    /\ pc = "idle"
    /\ widget.constructed
    /\ \E ds \in DataSources :
          /\ Len(widget.regionsList) + ToShow(ds) <= MaxItems
          /\ WCalled("set_data_source", set_data_source(widget, ds, store))
          /\ hist' = [hist EXCEPT !.shown = @ + ToShow(ds)]

Widget_display_data ==
    /\ pc = "idle"
    /\ widget.constructed
    /\ Len(widget.regionsList) + ToShow(widget.data_source) <= MaxItems
    /\ WCalled("display_data", display_data(widget, store))
    /\ hist' = [hist EXCEPT !.shown = @ + ToShow(widget.data_source)]

Widget_clear ==
    /\ pc = "idle"
    /\ widget.constructed
    /\ WCalled("clear", clear(widget))
    /\ hist' = [hist EXCEPT !.shown = 0]

\* the caller takes the outcome; the next call starts from scratch
Return ==
    /\ pc = "returned"
    /\ pc' = "idle"
    /\ op' = "none"
    /\ args' = NoArgs
    /\ result' = NoResult
    /\ UNCHANGED objects

NextIntersection == Call_cgt_intersection \/ Return

SpecIntersection == Init /\ [][NextIntersection]_vars

NextRect == Call_make_positive_rect \/ Call_get_rect_even_dimensions \/ Return

SpecRect == Init /\ [][NextRect]_vars

NextVelocity == Call_difference_list_to_velocities \/ Return

SpecVelocity == Init /\ [][NextVelocity]_vars

NextSerial ==
    \/ Call_list_to_g_point
    \/ Call_list_to_g_line
    \/ Call_g_point_to_tuple
    \/ Call_g_line_to_tuple
    \/ Return

SpecSerial == Init /\ [][NextSerial]_vars

NextArrow == Call_make_arrow_head \/ Call_make_arrow \/ Return

SpecArrow == Init /\ [][NextArrow]_vars

NextProject ==
    \/ Project_init
    \/ Project_setitem
    \/ Project_init_new_project
    \/ Project_set_changed
    \/ Project_reset_changed
    \/ Project_has_been_changed
    \/ Store_add_region
    \/ Return

SpecProject == Init /\ [][NextProject]_vars

NextWidget ==
    \/ Widget_init
    \/ Widget_set_data_source
    \/ Widget_display_data
    \/ Widget_clear
    \/ Store_add_region
    \/ Return

SpecWidget == Init /\ [][NextWidget]_vars

\* every helper callable from the idle state
Next ==
    \/ Call_cgt_intersection
    \/ Call_make_positive_rect
    \/ Call_get_rect_even_dimensions
    \/ Call_difference_list_to_velocities
    \/ Call_list_to_g_point
    \/ Call_list_to_g_line
    \/ Call_g_point_to_tuple
    \/ Call_g_line_to_tuple
    \/ Call_make_arrow_head
    \/ Call_make_arrow
    \/ Project_init
    \/ Project_setitem
    \/ Project_init_new_project
    \/ Project_set_changed
    \/ Project_reset_changed
    \/ Project_has_been_changed
    \/ Store_add_region
    \/ Widget_init
    \/ Widget_set_data_source
    \/ Widget_display_data
    \/ Widget_clear
    \/ Return

Spec == Init /\ [][Next]_vars

(***************************************************************************)
(* Claims about cgt_intersection.                                          *)
(***************************************************************************)
AfterIntersection == pc = "returned" /\ op = "cgt_intersection"

AllFinite(line) ==
    /\ isfinite(line.p1.x) /\ isfinite(line.p1.y)
    /\ isfinite(line.p2.x) /\ isfinite(line.p2.y)

\* the direction of a finite line, in integers
DirX(line) == line.p2.x.v - line.p1.x.v
DirY(line) == line.p2.y.v - line.p1.y.v

\* parallel, or one of the two of zero length: the directions' cross product is 0
ParallelOrDegenerate(n, c) == DirX(n) * DirY(c) - DirY(n) * DirX(c) = 0

\* C1: cgt_intersection raises the parallel-lines error (ArithmeticError), and
\* returns neither an intersection nor an extension, whenever the denominator
\* a.y*b.x - a.x*b.y is 0 or not finite: for every pair of parallel lines, every
\* zero-length N or C, and every line with a non-finite coordinate.
C1_ParallelRaises ==
    AfterIntersection =>
        LET n == args.centred_normal
            c == args.clone
        IN  /\ (~AllFinite(n) \/ ~AllFinite(c)) => result = Raised("ArithmeticError")
            /\ (AllFinite(n) /\ AllFinite(c) /\ ParallelOrDegenerate(n, c))
                   => result = Raised("ArithmeticError")
            /\ (n = ExampleN /\ c = ExampleParallel) => result.status = "raised"

C1_Witness ==
    /\ AfterIntersection
    /\ args.centred_normal = ExampleN
    /\ args.clone = ExampleParallel
    /\ result.status = "raised"

\* the rational point of a finite input point
AsRat(p) == RPoint(RInt(p.x.v), RInt(p.y.v))

\* q is on the infinite line through the finite line
OnLine(q, line) ==
    RIsZero(RCross(RPSub(q, AsRat(line.p1)),
                   RPSub(AsRat(line.p2), AsRat(line.p1))))

\* C2: when the denominator is not 0 the point returned is N.p1 + a*na, with
\* na = (b.y*c.x - b.x*c.y)/denominator, and it lies on the infinite line through
\* N and on the infinite line through C; for N = (0,0)-(0,10) and
\* C = (-5,5)-(5,5) it is (0,5) with no extension.
C2_IntersectionOnBothLines ==
    (AfterIntersection /\ result.status = "ok") =>
        LET n == args.centred_normal
            c == args.clone
            i == result.value.intersection
            ax == DirX(n)
            ay == DirY(n)
            bx == c.p1.x.v - c.p2.x.v
            by == c.p1.y.v - c.p2.y.v
            cx == n.p1.x.v - c.p1.x.v
            cy == n.p1.y.v - c.p1.y.v
            den == ay * bx - ax * by
            num == by * cx - bx * cy
        IN  /\ den # 0
            /\ i.x = Rat(n.p1.x.v * den + ax * num, den)
            /\ i.y = Rat(n.p1.y.v * den + ay * num, den)
            /\ OnLine(i, n)
            /\ OnLine(i, c)
            /\ (n = ExampleN /\ c = ExampleCross) =>
                   /\ i = RPoint(RInt(0), RInt(5))
                   /\ result.value.extension = NoneVal

C2_Witness ==
    /\ AfterIntersection
    /\ args.centred_normal = ExampleN
    /\ args.clone = ExampleCross
    /\ result.status = "ok"
    /\ result.value.intersection = RPoint(RInt(0), RInt(5))

\* where the point q of the clone's infinite line lies with respect to the clone
BeforeP1(q, c) ==
    RLt(RDot(RPSub(q, AsRat(c.p1)), RPSub(AsRat(c.p2), AsRat(c.p1))), RInt(0))
BeyondP2(q, c) ==
    RLt(RInt(0), RDot(RPSub(q, AsRat(c.p2)), RPSub(AsRat(c.p2), AsRat(c.p1))))

\* C3: when the denominator is not 0 an extension is returned exactly when the
\* intersection is outside the segment C: from C.p1 to the intersection when it
\* lies before C.p1 (nb < 0), from C.p2 to the intersection when it lies beyond
\* C.p2 (nb > 1), and none when it is on C, end points included.
C3_ExtensionOutsideClone ==
    (AfterIntersection /\ result.status = "ok") =>
        LET c == args.clone
            i == result.value.intersection
            e == result.value.extension
        IN  /\ BeforeP1(i, c) => e = QLineF(AsRat(c.p1), i)
            /\ BeyondP2(i, c) => e = QLineF(AsRat(c.p2), i)
            /\ (~BeforeP1(i, c) /\ ~BeyondP2(i, c)) => e = NoneVal
            /\ (i = AsRat(c.p1) \/ i = AsRat(c.p2)) => e = NoneVal

\* the intersection is beyond C.p2 and the extension starts at C.p2
C3_Witness ==
    /\ AfterIntersection
    /\ result.status = "ok"
    /\ BeyondP2(result.value.intersection, args.clone)
    /\ result.value.extension =
           QLineF(AsRat(args.clone.p2), result.value.intersection)

(***************************************************************************)
(* Claims about the rectangle helpers.                                     *)
(***************************************************************************)
AfterPositiveRect == pc = "returned" /\ op = "make_positive_rect"

\* C5: make_positive_rect(c1, c2) equals make_positive_rect(c2, c1); its width
\* and height are not negative, its left and right edges are the two x's and its
\* top and bottom edges the two y's, so that width = |c2.x - c1.x|,
\* height = |c2.y - c1.y| and the top left is (min x, min y).
C5_PositiveRectSymmetric ==
    AfterPositiveRect =>
        LET c1 == args.corner
            c2 == args.opposite_corner
            r == result.value
        IN  /\ r = make_positive_rect(c2, c1)
            /\ r.w >= 0 /\ r.h >= 0
            /\ {r.x, r.x + r.w} = {c1.x, c2.x}
            /\ {r.y, r.y + r.h} = {c1.y, c2.y}
            /\ r.x <= c1.x /\ r.x <= c2.x /\ r.y <= c1.y /\ r.y <= c2.y

\* the corners are given bottom right first
C5_Witness ==
    /\ AfterPositiveRect
    /\ args.corner.x > args.opposite_corner.x
    /\ args.corner.y > args.opposite_corner.y
    /\ result.value.w > 0 /\ result.value.h > 0

AfterEvenDimensions == pc = "returned" /\ op = "get_rect_even_dimensions"

\* the integer rectangle q covers the rectangle r moved by pos
ContainsInScene(q, r, pos) ==
    /\ RLe(RInt(q.x), RAdd(r.x, pos.x))
    /\ RLe(RAdd(RAdd(r.x, pos.x), r.w), RInt(q.x + q.w))
    /\ RLe(RInt(q.y), RAdd(r.y, pos.y))
    /\ RLe(RAdd(RAdd(r.y, pos.y), r.h), RInt(q.y + q.h))

\* C6: get_rect_even_dimensions(R, True) returns an integer rectangle whose
\* width and height are even and which contains R as placed in the scene; with
\* even_dimensions False it returns the aligned rectangle, translated, with its
\* width and height as aligned.
C6_EvenAndContains ==
    AfterEvenDimensions =>
        LET item == args.rect_item
            q == result.value
            aligned == toAlignedRect(item.rect)
        IN  IF args.even_dimensions
            THEN /\ q.w % 2 = 0 /\ q.h % 2 = 0
                 /\ ContainsInScene(q, item.rect, item.pos)
            ELSE /\ q.w = aligned.w /\ q.h = aligned.h
                 /\ q.x = aligned.x + qRound(item.pos.x)
                 /\ q.y = aligned.y + qRound(item.pos.y)

\* what does hold: the sides are even, and the rectangle contains R moved by the
\* position rounded to the nearest integers
C6_EvenAndContainsRounded ==
    (AfterEvenDimensions /\ args.even_dimensions) =>
        LET item == args.rect_item
            q == result.value
        IN  /\ q.w % 2 = 0 /\ q.h % 2 = 0
            /\ ContainsInScene(q, item.rect,
                   RPoint(RInt(qRound(item.pos.x)), RInt(qRound(item.pos.y))))

(***************************************************************************)
(* Claims about difference_list_to_velocities.                             *)
(***************************************************************************)
AfterVelocities == pc = "returned" /\ op = "difference_list_to_velocities"

\* C7: with every frame interval and the frame rate not zero the list returned
\* has the length and order of the input, its i-th element is
\* |average_i * scale * fps / frames_i|, and no element is negative; average -4,
\* scale 2, frames 5, fps 10 gives 16.
C7_VelocityMagnitude ==
    (AfterVelocities
        /\ ~RIsZero(args.fps)
        /\ \A i \in 1 .. Len(args.diff_list) : ~RIsZero(args.diff_list[i].frames)) =>
        /\ result.status = "ok"
        /\ Len(result.value) = Len(args.diff_list)
        /\ \A i \in 1 .. Len(args.diff_list) :
              LET e == args.diff_list[i]
                  num == e.diff.average.n * args.scale.n * args.fps.n * e.frames.d
                  den == e.diff.average.d * args.scale.d * args.fps.d * e.frames.n
              IN  /\ result.value[i] = Rat(Abs(num), Abs(den))
                  /\ result.value[i].n >= 0
        /\ (args = ExampleVelocity => result.value = <<RInt(16)>>)

C7_Witness ==
    /\ AfterVelocities
    /\ args = ExampleVelocity
    /\ result = Returned(<<RInt(16)>>)

AfterPointToTuple == pc = "returned" /\ op = "g_point_to_tuple"
AfterLineToTuple == pc = "returned" /\ op = "g_line_to_tuple"
AfterListToPoint == pc = "returned" /\ op = "list_to_g_point"
AfterListToLine == pc = "returned" /\ op = "list_to_g_line"

IsNumber(x) == x.t \in {"int", "float"}

\* Python's == on two values of a record
PyEq(x, y) ==
    IF IsNumber(x) /\ IsNumber(y) THEN x.v = y.v
    ELSE x = y

\* Python's == on two lists
PyListEq(l1, l2) ==
    /\ Len(l1) = Len(l2)
    /\ \A i \in 1 .. Len(l1) : PyEq(l1[i], l2[i])

\* a record of n fields whose fields after the ID are numbers, the last two ints
ValidRecord(f, n) ==
    /\ Len(f) = n
    /\ \A i \in 2 .. (n - 2) : IsNumber(f[i])
    /\ f[n - 1].t = "int" /\ f[n].t = "int"

\* the text of a number, or a number, whose value is an integer given as such
IntegerGiven(x) == x.t = "int" \/ (x.t = "str" /\ x.lit = "int")

\* C4 as stated: the list written from the item built from a valid record F is
\* equal to F, with the same length and the same order of fields.
C4_RoundTripEqual ==
    /\ (AfterPointToTuple /\ ValidRecord(args.read_from, 7))
           => PyListEq(result.value, args.read_from)
    /\ (AfterLineToTuple /\ ValidRecord(args.read_from, 9))
           => PyListEq(result.value, args.read_from)

\* the list written back, compared with the n fields after the ID of the record
SameAfterId(out, f, n) ==
    /\ Len(out) = n
    /\ \A i \in 1 .. (n - 2) : out[i] = PyFloatTok(f[i + 1].v)
    /\ \A i \in (n - 1) .. n : IntegerGiven(f[i + 1]) => out[i] = PyIntTok(f[i + 1].v)
    /\ ValidRecord(f, n + 1) => PyListEq(out, Tail(f))

\* C4 as amended: the list written from the item built from a record F is F
\* without its ID: 6 fields for a point and 8 for a line, in the order of F, each
\* coordinate the number its field denotes and each of frame and region the
\* integer its field gives; it is equal to F less its first field when F is valid.
C4_RoundTripWithoutId ==
    /\ AfterPointToTuple => SameAfterId(result.value, args.read_from, 6)
    /\ AfterLineToTuple => SameAfterId(result.value, args.read_from, 8)

\* a valid point record, with centre and position apart, has been written back
C4_Witness ==
    /\ AfterPointToTuple
    /\ ValidRecord(args.read_from, 7)
    /\ args.read_from[2] # args.read_from[4]
    /\ Len(result.value) = 6

\* not the text of a number (nor a number); not the text of an integer
NotNumber(x) == x.t = "None" \/ (x.t = "str" /\ x.lit = "other")
NotInteger(x) == NotNumber(x) \/ (x.t = "str" /\ x.lit = "float")

\* a record that cannot be read as n fields after the ID
Malformed(f, n) ==
    \/ Len(f) < n + 1
    \/ \E i \in 2 .. (n - 1) : NotNumber(f[i])
    \/ \E i \in n .. (n + 1) : NotInteger(f[i])

\* C9: list_to_g_point raises, and builds no item, when the record has fewer
\* than 7 fields or one of the fields 1 to 4 is not a number or one of frame and
\* region not an integer; list_to_g_line likewise with 9 fields and the fields 1
\* to 8; otherwise an item is built, whatever the ID is.
C9_MalformedRaises ==
    /\ AfterListToPoint =>
          /\ Malformed(args.point, 6) <=> result.status = "raised"
          /\ result.status = "raised" =>
                 result.exc \in {"IndexError", "ValueError", "TypeError"}
          /\ result.status = "ok" => result.value.t = "QGraphicsPathItem"
    /\ AfterListToLine =>
          /\ Malformed(args.line, 8) <=> result.status = "raised"
          /\ result.status = "raised" =>
                 result.exc \in {"IndexError", "ValueError", "TypeError"}
          /\ result.status = "ok" => result.value.t = "QGraphicsLineItem"

\* seven fields, all in order but the region, which is the text of a decimal
C9_Witness ==
    /\ AfterListToPoint
    /\ Len(args.point) = 7
    /\ \A i \in 2 .. 5 : ~NotNumber(args.point[i])
    /\ ~NotInteger(args.point[6])
    /\ args.point[7] = PyStrTok("float", RInt(3))
    /\ result = Raised("ValueError")

(***************************************************************************)
(* Claims about make_arrow_head.                                           *)
(***************************************************************************)
AfterArrowHead == pc = "returned" /\ op = "make_arrow_head"

LengthSquared(p) == RDot(p, p)

\* the polygon is the head of the line: its first vertex is line.p2; the middle
\* q of the other two is on the line, 10 back from p2, and the two are 5 away
\* from q at right angles to the line
IsHeadOf(poly, line) ==
    LET v == poly.points
        d == Delta(line)
        q == RPScale(RPAdd(v[2], v[3]), Rat(1, 2))
    IN  /\ poly.t = "QPolygonF"
        /\ Len(v) = 3
        /\ v[1] = line.p2
        /\ RIsZero(RCross(RPSub(q, line.p2), d))
        /\ LengthSquared(RPSub(line.p2, q)) = RInt(100)
        /\ RLt(RInt(0), RDot(RPSub(line.p2, q), d))
        /\ LengthSquared(RPSub(v[2], q)) = RInt(25)
        /\ LengthSquared(RPSub(v[3], q)) = RInt(25)
        /\ RIsZero(RDot(RPSub(v[2], q), d))
        /\ v[2] # v[3]

AfterArrow == pc = "returned" /\ op = "make_arrow"

\* the line is of non-zero length, the clone is not perpendicular to it (nor of
\* zero length): the directions' dot product is not 0
NotPerpendicular(line, clone) ==
    DirX(line) * DirX(clone) + DirY(line) * DirY(clone) # 0

\* C11: for a line of non-zero length and a clone not perpendicular to it,
\* make_arrow returns an arrow that starts at the middle of the line, is
\* perpendicular to the line and ends on the infinite line through the clone;
\* the extension is the one cgt_intersection gives: from the end of the clone
\* the tip lies beyond to the tip, and None when the tip is on the clone.
C11_ArrowFromCentreToClone ==
    (AfterArrow /\ NotPerpendicular(args.line, args.clone)) =>
        /\ result.status = "ok"
        /\ LET line == args.line
               clone == args.clone
               arrow == result.value.arrow
               e == result.value.extension
               d == RPSub(AsRat(line.p2), AsRat(line.p1))
           IN  /\ RPAdd(arrow.p1, arrow.p1) = RPAdd(AsRat(line.p1), AsRat(line.p2))
               /\ RIsZero(RDot(Delta(arrow), d))
               /\ OnLine(arrow.p2, clone)
               /\ BeforeP1(arrow.p2, clone) => e = QLineF(AsRat(clone.p1), arrow.p2)
               /\ BeyondP2(arrow.p2, clone) => e = QLineF(AsRat(clone.p2), arrow.p2)
               /\ (~BeforeP1(arrow.p2, clone) /\ ~BeyondP2(arrow.p2, clone))
                      => e = NoneVal

\* a slanted line, its arrow of non-zero length, the tip beyond the clone's p2
C11_Witness ==
    /\ AfterArrow
    /\ NotPerpendicular(args.line, args.clone)
    /\ DirX(args.line) # 0 /\ DirY(args.line) # 0
    /\ result.status = "ok"
    /\ result.value.arrow.p1 # result.value.arrow.p2
    /\ BeyondP2(result.value.arrow.p2, args.clone)
    /\ result.value.extension = QLineF(AsRat(args.clone.p2), result.value.arrow.p2)

(***************************************************************************)
(* Claims about CGTProject.                                                *)
(***************************************************************************)
AfterCall(name) == pc = "returned" /\ op = name

\* what has_been_changed() returns in the state
Dirty == has_been_changed(project, store).ret

\* C12: has_been_changed() returns the project's own flag, or'ed with the
\* store's has_been_changed() when the entry "results" is not None, and the
\* call leaves the flags and the entries as they were.
C12_ChangedIsOwnOrStore ==
    AfterCall("has_been_changed") =>
        /\ result.value =
              IF args.self.entries["results"] = "None"
              THEN args.self.changed
              ELSE (args.self.changed \/ args.store.changed)
        /\ project = args.self
        /\ store = args.store

\* the project's own flag is down, the store's is up, and the answer is True
C12_Witness ==
    /\ AfterCall("has_been_changed")
    /\ project.entries["results"] = "store"
    /\ ~project.changed
    /\ store.changed
    /\ result.value = TRUE

\* the step is a call of one of the named methods
Step(names) == pc = "idle" /\ pc' = "returned" /\ op' \in names

Assigning == {"__setitem__", "init_new_project", "set_changed"}

\* C13: after a key assignment or set_changed, has_been_changed() is true, and it
\* is true as long as no reset_changed has followed; right after reset_changed
\* it is false (the own flag is down, and the store's when "results" is not
\* None), and it stays false until a key is assigned, set_changed is called or
\* the results change.
C13_ChangedUntilReset ==
    [][ project'.constructed =>
          /\ Step(Assigning) => Dirty'
          /\ hist'.dirtied => Dirty'
          /\ Step({"reset_changed"}) =>
                /\ ~Dirty'
                /\ ~project'.changed
                /\ project'.entries["results"] # "None" => ~store'.changed
                /\ project'.entries = project.entries
          /\ (project.constructed /\ ~Dirty
                 /\ ~Step(Assigning \cup {"add_region"})) => ~Dirty'
      ]_vars

\* reset_changed has just cleared the flag of the store too
C13_Witness ==
    /\ AfterCall("reset_changed")
    /\ project.entries["results"] = "store"
    /\ args.self.changed
    /\ args.store.changed
    /\ ~Dirty

\* C14: a CGTProject just constructed, no key assigned by a caller yet, reports
\* has_been_changed() True: __init__ clears the flag and then sets its keys
\* through __setitem__; the flag is down only after a reset_changed.
C14_NewProjectIsChanged ==
    project.constructed =>
        /\ AfterCall("__init__") => (project.changed /\ Dirty)
        /\ ~hist.reset => (project.changed /\ Dirty)
        /\ ~project.changed => hist.reset

\* just constructed, nothing assigned by a caller
C14_Witness ==
    /\ AfterCall("__init__")
    /\ ~hist.assigned
    /\ ~hist.reset
    /\ project.entries["results"] = "None"
    /\ Dirty

(***************************************************************************)
(* Claims about RegionsLinesFramesWidget.                                  *)
(***************************************************************************)
IsPrefix(l1, l2) == Len(l1) <= Len(l2) /\ SubSeq(l2, 1, Len(l1)) = l1

Displaying == {"display_data", "set_data_source"}

\* C15: the regions list holds what the display_data calls since the last clear
\* have appended: each call appends one entry for each region of the result
\* (none when get_result() is None) after the entries there are, so the length
\* is the sum over the calls, whatever the data source holds now; only clear
\* empties the regions, lines and frames lists.
C15_RegionsAccumulate ==
    [][ /\ Len(widget'.regionsList) = hist'.shown
        /\ Step(Displaying) =>
              /\ IsPrefix(widget.regionsList, widget'.regionsList)
              /\ Len(widget'.regionsList) =
                     Len(widget.regionsList) + ToShow(widget'.data_source)
              /\ \A i \in 1 .. ToShow(widget'.data_source) :
                     /\ widget'.regionsList[Len(widget.regionsList) + i].region = i - 1
                     /\ widget'.regionsList[Len(widget.regionsList) + i].count
                            = store.lines[i]
        /\ ~Step({"clear"}) => IsPrefix(widget.regionsList, widget'.regionsList)
        /\ Step({"clear"}) =>
              /\ widget'.regionsList = <<>>
              /\ widget'.linesList = <<>>
              /\ widget'.framesList = <<>>
      ]_vars

\* shown twice: the list is longer than the data source has regions
C15_Witness ==
    /\ AfterCall("display_data")
    /\ widget.data_source = "store"
    /\ Len(store.lines) > 0
    /\ Len(widget.regionsList) > Len(store.lines)
    /\ Len(widget.regionsList) > Len(args.self.regionsList)

=============================================================================
